---- MODULE Spec2Model ----
(***************************************************************************)
(* open_board: the player widget's fade state machine over the Qt sound    *)
(* repository (engine/infrastructure/widgets.py, repositories.py) and the  *)
(* stream resolver resolve_youtube.                                        *)
(*                                                                         *)
(* Two specifications:                                                     *)
(*   Spec         one SoundPlayer wired to an AudioService over a          *)
(*                QtSoundRepository, driven by its slots (play, _pause,    *)
(*                stop, the slider), fade-timer ticks and media events.    *)
(*                The slots are run as methods, the way the tests and      *)
(*                SoundSection.stop_all run them, whichever button is      *)
(*                visible;                                                 *)
(*   SpecResolve  resolve_youtube applied to bounded inputs.               *)
(***************************************************************************)
EXTENDS Integers, Sequences, FiniteSets, TLC

VARIABLES
    player,     \* the SoundPlayer widget's fields
    repo,       \* the QtSoundRepository behind the AudioService
    step,       \* history: the handler that ran last and the calls it made
    request,    \* history: the last request and the timer ticks since
    resolved,   \* how many direct urls the resolver has handed the player
    req_url,    \* SpecResolve: the url handed to resolve_youtube
    client,     \* SpecResolve: how the stream client behaves for that url
    result,     \* SpecResolve: what resolve_youtube returned or raised
    domain      \* SpecSound, SpecFolder, SpecSection: inputs and results

vars ==
    <<player, repo, step, request, resolved, req_url, client, result,
      domain>>

----------------------------------------------------------------------------
(* Bounds of the model.                                                    *)

\* longest list of streams the client offers
MaxStreams == 3
\* most client invocations that fail before one succeeds
MaxFails == 2
\* deepest nesting of fades started from the middle of another fade
MaxChain == 1
\* media length, in position steps
Duration == 1

----------------------------------------------------------------------------
(* Stream resolver: resolve_youtube and the client it queries.             *)

\* URLs are token sequences, so that "begins with" is a prefix test.
VideoIds == {"dummy", "abc"}
CanonicalUrl(id) == <<"https://", "www.youtube.com", "/watch?v=", id>>
MusicUrl(id) == <<"https://", "music.youtube.com", "/watch?v=", id>>
ShortUrl(id) == <<"https://", "youtu.be", "/", id>>

StartsWith(s, prefix) ==
    /\ Len(s) >= Len(prefix)
    /\ SubSeq(s, 1, Len(prefix)) = prefix

InputUrls ==
    UNION {{CanonicalUrl(id), MusicUrl(id), ShortUrl(id)} : id \in VideoIds}

\* A stream the client offers: its container, bitrate and direct url.
Stream(url, mime_type, abr) ==
    [url |-> url, mime_type |-> mime_type, abr |-> abr]
Streams ==
    {Stream("mp4_128", "audio/mp4", 128), Stream("mp4_160", "audio/mp4", 160),
     Stream("webm_128", "audio/webm", 128),
     Stream("webm_160", "audio/webm", 160),
     Stream("video_128", "video/mp4", 128),
     Stream("video_160", "video/mp4", 160)}
NoStream == [url |-> "", mime_type |-> "", abr |-> 0]

\* only_audio: the stream carries an audio track and no video track
IsAudioOnly(s) == s.mime_type \in {"audio/mp4", "audio/webm"}

\* query.filter(only_audio=..., mime_type=...); mime "" stands for None
Filter(q, only_audio, mime) ==
    SelectSeq(q, LAMBDA s : /\ (only_audio => IsAudioOnly(s))
                            /\ (mime = "" \/ s.mime_type = mime))

\* sorted() is stable: x goes after every element that is not greater
InsertSorted(q, x) ==
    LET k == Cardinality({i \in 1..Len(q) : q[i].abr <= x.abr})
    IN  SubSeq(q, 1, k) \o <<x>> \o SubSeq(q, k + 1, Len(q))

RECURSIVE OrderByAbr(_)
OrderByAbr(q) ==
    IF q = <<>> THEN <<>>
    ELSE InsertSorted(OrderByAbr(SubSeq(q, 1, Len(q) - 1)), q[Len(q)])

Desc(q) == [i \in 1..Len(q) |-> q[Len(q) + 1 - i]]

First(q) == IF q = <<>> THEN NoStream ELSE q[1]

\* The stream chosen at widgets.py:44-52.
SelectMp4First(streams) ==
    First(Desc(OrderByAbr(Filter(streams, TRUE, "audio/mp4"))))

SelectAnyAudio(streams) ==
    First(Desc(OrderByAbr(Filter(streams, TRUE, ""))))

\* mutant: the highest bitrate of any container
select_stream_any(streams) == SelectAnyAudio(streams)

select_stream(streams) ==
    IF SelectMp4First(streams) # NoStream THEN SelectMp4First(streams)
    ELSE SelectAnyAudio(streams)

\* A client behaviour: its first `fails` invocations raise a transient HTTP
\* error, the later ones answer with `streams` and `title`.
RECURSIVE SeqsUpTo(_, _)
SeqsUpTo(S, n) ==
    IF n = 0 THEN {<<>>}
    ELSE LET shorter == SeqsUpTo(S, n - 1)
         IN  shorter \cup {Append(q, x) : q \in {r \in shorter : Len(r) = n - 1},
                                           x \in S}

Clients ==
    [fails : 0..MaxFails, streams : SeqsUpTo(Streams, MaxStreams),
     title : {"title"}]

Outcome(status, url, title, error, calls, passed) ==
    [status |-> status, url |-> url, title |-> title, error |-> error,
     calls |-> calls, passed |-> passed]

\* What resolve_youtube hands to YouTube(...): the url as given.
client_url(url) == url

\* resolve_youtube(url) against client behaviour c: one client invocation,
\* whose error propagates; then the stream choice, or ValueError.
\* `calls` counts the client invocations, `passed` lists their arguments.
resolve_youtube(url, c) ==
    IF c.fails >= 1
    THEN Outcome("raised", "", "", "HTTPError", 1, <<client_url(url)>>)
    ELSE IF select_stream(c.streams) = NoStream
    THEN Outcome("raised", "", "", "ValueError", 1, <<client_url(url)>>)
    ELSE Outcome("ok", select_stream(c.streams).url, c.title, "", 1,
                 <<client_url(url)>>)

NoOutcome == Outcome("pending", "", "", "", 0, <<>>)

----------------------------------------------------------------------------
(* Gains.  A gain g in [0.0, 1.0] is the integer g * GainOne.  GainOne is  *)
(* chosen so that every interpolation the bounded model reaches is exact:  *)
(* a slider step is 1/100 and each nesting level of a fade divides by the  *)
(* 30 ticks of a ramp.                                                     *)

\* self._fade_elapsed / 3000
FadeMs == 3000
\* self._fade_timer.start(100); self._fade_elapsed += 100
TickMs == 100
\* self.volume_slider.value() / 100.0
SliderMax == 100
\* self.volume_slider.setValue(70)
SliderInit == 70

FadeTicks == FadeMs \div TickMs

RECURSIVE Pow(_, _)
Pow(b, n) == IF n = 0 THEN 1 ELSE b * Pow(b, n - 1)

GainOne == SliderMax * Pow(FadeTicks, MaxChain + 1)

\* slider value -> gain: value / 100.0
SliderGain(v) == v * (GainOne \div SliderMax)

\* the slider positions the model moves the slider to
SliderValues == {0, SliderInit}

\* the master slider runs from 0 to 100; the master gain is value / 100
MasterMax == 100
MasterGains == {0, MasterMax \div 2, MasterMax}
\* the gain of a QAudioOutput is the per-sound gain times the master gain,
\* kept here as the product of the two integers
FullOutput == GainOne * MasterMax

Min(a, b) == IF a <= b THEN a ELSE b

\* ratio = min(elapsed / 3000, 1.0); start + (end - start) * ratio
Interpolate(start, end, elapsed) ==
    start + ((end - start) * (Min(elapsed, FadeMs) \div TickMs)) \div FadeTicks

----------------------------------------------------------------------------
(* Sound identities and the Qt sound repository.                           *)

\* Sound(path, loop), path standing for str(path)
Sound(path, loop) == [path |-> path, loop |-> loop]

\* mutant: the loop flag takes part in the comparison
SoundEqWithLoop(a, b) == a.path = b.path /\ a.loop = b.loop

\* Sound.__eq__ (and __hash__) on such values: str(path) alone
SoundEq(a, b) == a.path = b.path

FilePath == "file"
LinkUrl == "link"
\* the direct urls the resolver hands a stream player, a new one each time
\* (as fake_resolve of test_youtube_retry_playback.py does); once they are
\* used up every resolution fails
PlayerUrls == <<"u1", "u2">>
\* the files of the folder a folder player draws from
FolderFiles == {"a", "b"}
Paths ==
    {FilePath, LinkUrl} \cup {PlayerUrls[i] : i \in 1..Len(PlayerUrls)}
        \cup FolderFiles

\* a session: loop is the flag of the Sound the QMediaPlayer was created
\* for, which its status handler keeps
NoHandle ==
    [exists |-> FALSE, loop |-> FALSE, playing |-> FALSE, position |-> 0,
     output |-> 0]
\* a key that self._volumes does not hold
NoVolume == 0 - 1

\* The calls a handler makes on the service and on the resolver, in order.
\* The arg of a play is the per-sound gain the repository holds for the
\* sound when its QMediaPlayer is told to play.
Call(op, path, arg) == [op |-> op, path |-> path, arg |-> arg]
Log(w, op, path, arg) == [w EXCEPT !.calls = Append(@, Call(op, path, arg))]

\* self._players.get(sound): the dict finds a key equal to sound
HasPlayer(w, s) ==
    \E i \in 1..Len(w.repo.made) : SoundEq(w.repo.made[i], s)

\* mutant: a new session starts from the default gain
ensure_player_resets_gain(w, s) ==
    IF HasPlayer(w, s) THEN w
    ELSE [w EXCEPT
            !.repo.made = Append(@, s),
            !.repo.handles[s.path] =
                [exists |-> TRUE, loop |-> s.loop, playing |-> FALSE,
                 position |-> 0, output |-> FullOutput],
            !.repo.volumes[s.path] = GainOne]

\* QtSoundRepository._ensure_player: one QMediaPlayer per identity, created
\* on first use with an output at full gain; the status handler keeps the
\* Sound it was created for.  made lists the Sounds a QMediaPlayer was
\* constructed for, in order.
ensure_player(w, s) ==
    IF HasPlayer(w, s) THEN w
    ELSE [w EXCEPT
            !.repo.made = Append(@, s),
            !.repo.handles[s.path] =
                [exists |-> TRUE, loop |-> s.loop, playing |-> FALSE,
                 position |-> 0, output |-> FullOutput],
            !.repo.volumes[s.path] = IF @ = NoVolume THEN GainOne ELSE @]

\* mutant: the output keeps the per-sound gain alone
apply_volume_no_master(w, s) ==
    IF ~w.repo.handles[s.path].exists THEN w
    ELSE [w EXCEPT !.repo.handles[s.path].output =
                       w.repo.volumes[s.path] * MasterMax]

\* QtSoundRepository._apply_volume
apply_volume(w, s) ==
    IF ~w.repo.handles[s.path].exists THEN w
    ELSE LET volume == IF w.repo.volumes[s.path] = NoVolume THEN GainOne
                       ELSE w.repo.volumes[s.path]
         IN  [w EXCEPT !.repo.handles[s.path].output =
                           volume * w.repo.master]

\* QtSoundRepository.play; QMediaPlayer.play(): playing, and media that had
\* ended restarts at 0.
repo_play(w, s) ==
    LET w0 == ensure_player(w, s)
        w1 == apply_volume(Log(w0, "play", s.path, w0.repo.volumes[s.path]),
                           s)
    IN  [w1 EXCEPT
            !.repo.handles[s.path].playing = TRUE,
            !.repo.handles[s.path].position =
                IF @ = Duration /\ ~w1.repo.handles[s.path].playing
                THEN 0 ELSE @]

\* mutant: pausing rewinds the media
repo_pause_rewinds(w, s) ==
    LET w1 == Log(w, "pause", s.path, 0)
    IN  IF w1.repo.handles[s.path].exists
        THEN [w1 EXCEPT !.repo.handles[s.path].playing = FALSE,
                        !.repo.handles[s.path].position = 0]
        ELSE w1

\* QtSoundRepository.pause: QMediaPlayer.pause() keeps the position.
repo_pause(w, s) ==
    LET w1 == Log(w, "pause", s.path, 0)
    IN  IF w1.repo.handles[s.path].exists
        THEN [w1 EXCEPT !.repo.handles[s.path].playing = FALSE]
        ELSE w1

\* mutant: stopping forgets the gain set for the sound
repo_stop_resets_gain(w, s) ==
    LET w1 == Log(w, "stop", s.path, 0)
    IN  IF w1.repo.handles[s.path].exists
        THEN apply_volume(
                 [w1 EXCEPT !.repo.handles[s.path].playing = FALSE,
                            !.repo.handles[s.path].position = 0,
                            !.repo.volumes[s.path] = GainOne], s)
        ELSE w1

\* QtSoundRepository.stop: QMediaPlayer.stop() rewinds to the start.
repo_stop(w, s) ==
    LET w1 == Log(w, "stop", s.path, 0)
    IN  IF w1.repo.handles[s.path].exists
        THEN [w1 EXCEPT !.repo.handles[s.path].playing = FALSE,
                        !.repo.handles[s.path].position = 0]
        ELSE w1

\* QtSoundRepository.set_volume
repo_set_volume(w, s, volume) ==
    apply_volume([Log(w, "set_volume", s.path, volume) EXCEPT
                     !.repo.volumes[s.path] = volume], s)

RECURSIVE ApplyAll(_, _)
\* "for snd in list(self._players.keys()): self._apply_volume(snd)"
ApplyAll(w, sounds) ==
    IF sounds = <<>> THEN w
    ELSE ApplyAll(apply_volume(w, Head(sounds)), Tail(sounds))

\* QtSoundRepository.set_master_volume
repo_set_master_volume(w, volume) ==
    ApplyAll([Log(w, "set_master_volume", "", volume) EXCEPT
                 !.repo.master = volume], w.repo.made)

\* QtSoundRepository.get_position
repo_get_position(w, s) ==
    IF w.repo.handles[s.path].exists
    THEN w.repo.handles[s.path].position ELSE 0

\* QtSoundRepository.set_position
repo_set_position(w, s, position) ==
    LET w1 == Log(w, "set_position", s.path, position)
    IN  IF w1.repo.handles[s.path].exists
        THEN [w1 EXCEPT !.repo.handles[s.path].position = position]
        ELSE w1

----------------------------------------------------------------------------
(* SoundPlayer.  A handler is an operator from the world w (the widget,   *)
(* the repository, the calls made so far) to the world it leaves.          *)

NoCallback == [set |-> FALSE, path |-> "", position |-> 0]

\* finish(s=self.sound, pos=position), the closure _pause hands to the fade
Callback(s, position) == [set |-> TRUE, path |-> s.path, position |-> position]

NoSound == Sound("", FALSE)

\* "if self.sound and self._service": the service is always wired here
HasSound(w) == w.player.sound # NoSound

\* SoundPlayer._stop_fade.  The ramp fields are read only under
\* "if self._fade_timer" (_fade_step, _pause), so they are cleared with the
\* timer: a player without a timer has one representation.  timers counts
\* the QTimer objects of the widget that were started and not stopped.
stop_fade(w) ==
    [w EXCEPT !.player.fade_timer = FALSE,
              !.player.timers = IF w.player.fade_timer THEN @ - 1 ELSE @,
              !.player.fade_callback = NoCallback,
              !.player.fade_start = 0,
              !.player.fade_end = 0,
              !.player.fade_elapsed = 0,
              !.player.fade_depth = 0]

\* mutant: a new timer is started beside the running one
start_fade_keeps_old(w, start, end, callback, depth) ==
    IF ~HasSound(w) THEN w
    ELSE LET w2 == [w EXCEPT !.player.fade_start = start,
                             !.player.fade_end = end,
                             !.player.fade_elapsed = 0,
                             !.player.fade_callback = callback,
                             !.player.fade_depth = depth]
             w3 == repo_set_volume(w2, w2.player.sound, start)
         IN  [w3 EXCEPT !.player.fade_timer = TRUE, !.player.timers = @ + 1]

\* SoundPlayer._start_fade; depth is the model's count of nested ramps
start_fade(w, start, end, callback, depth) ==
    IF ~HasSound(w) THEN w
    ELSE LET w1 == stop_fade(w)
             w2 == [w1 EXCEPT !.player.fade_start = start,
                              !.player.fade_end = end,
                              !.player.fade_elapsed = 0,
                              !.player.fade_callback = callback,
                              !.player.fade_depth = depth]
             w3 == repo_set_volume(w2, w2.player.sound, start)
         IN  [w3 EXCEPT !.player.fade_timer = TRUE, !.player.timers = @ + 1]

\* mutant: the pause is applied but the position is not put back
finish_no_seek(w, cb) ==
    [repo_pause(w, Sound(cb.path, FALSE)) EXCEPT
        !.player.pause_visible = FALSE, !.player.play_visible = TRUE]

\* the closure finish() of SoundPlayer._pause
finish(w, cb) ==
    LET s == Sound(cb.path, FALSE)
        w1 == repo_pause(w, s)
        w2 == repo_set_position(w1, s, cb.position)
    IN  [w2 EXCEPT !.player.pause_visible = FALSE,
                   !.player.play_visible = TRUE]

\* mutant: the timer is left running when the ramp is complete
fade_step_keeps_timer(w) ==
    LET elapsed == w.player.fade_elapsed + TickMs
        volume == Interpolate(w.player.fade_start, w.player.fade_end, elapsed)
        w1 == [w EXCEPT !.player.fade_elapsed = elapsed]
        w2 == repo_set_volume(w1, w1.player.sound, volume)
        callback == w2.player.fade_callback
    IN  IF elapsed >= FadeMs /\ callback.set THEN finish(w2, callback)
        ELSE w2

\* SoundPlayer._fade_step, the timer's timeout slot
fade_step(w) ==
    IF ~(HasSound(w) /\ w.player.fade_timer) THEN w
    ELSE LET elapsed == w.player.fade_elapsed + TickMs
             volume == Interpolate(w.player.fade_start, w.player.fade_end,
                                   elapsed)
             w1 == [w EXCEPT !.player.fade_elapsed = elapsed]
             w2 == repo_set_volume(w1, w1.player.sound, volume)
             callback == w2.player.fade_callback
         IN  IF elapsed >= FadeMs
             THEN IF callback.set THEN finish(stop_fade(w2), callback)
                  ELSE stop_fade(w2)
             ELSE w2

\* mutant: the fade-in starts at the target
playback_fade_start_target(w) == SliderGain(w.player.slider)

\* the gain the fade-in of _start_playback starts from
playback_fade_start(w) == 0

\* mutant: a stream is resolved once and the direct url kept
needs_resolve_once(p) == p.is_stream /\ p.sound.path = p.file_path

\* "if self.is_stream": the player resolves its link before it plays
needs_resolve(p) == p.is_stream

\* mutant: every player fades in
fades_in_always(p) == TRUE

\* "if self.loop_mode": the player fades in rather than jump to the target
fades_in(p) == p.loop_mode

\* mutant: playback starts without ending the running fade
start_playback_keeps_fade(w, outcome) ==
    IF ~HasSound(w) THEN w
    ELSE LET resolves == needs_resolve(w.player)
             wr == IF resolves
                   THEN Log(w, "resolve", w.player.file_path, 0)
                   ELSE w
         IN  IF resolves /\ outcome.status # "ok" THEN wr
             ELSE
             LET w2 == IF resolves
                       THEN [wr EXCEPT
                               !.player.filename = outcome.title,
                               !.player.sound =
                                   Sound(outcome.url, w.player.loop_mode)]
                       ELSE wr
                 s == w2.player.sound
                 target == SliderGain(w2.player.slider)
             IN  IF fades_in(w2.player)
                 THEN start_fade(repo_play(repo_set_volume(w2, s, 0), s),
                                 playback_fade_start(w2), target,
                                 NoCallback, 0)
                 ELSE repo_set_volume(repo_play(w2, s), s, target)

\* SoundPlayer._start_playback; outcome is what resolve_youtube gave
start_playback(w, outcome) ==
    IF ~HasSound(w) THEN w
    ELSE LET resolves == needs_resolve(w.player)
             wr == IF resolves
                   THEN Log(w, "resolve", w.player.file_path, 0)
                   ELSE w
         IN  IF resolves /\ outcome.status # "ok" THEN wr
             ELSE
             LET w1 == IF resolves
                       THEN [wr EXCEPT
                               !.player.filename = outcome.title,
                               !.player.sound =
                                   Sound(outcome.url, w.player.loop_mode)]
                       ELSE wr
                 w2 == stop_fade(w1)
                 s == w2.player.sound
                 target == SliderGain(w2.player.slider)
             IN  IF fades_in(w2.player)
                 THEN start_fade(repo_play(repo_set_volume(w2, s, 0), s),
                                 playback_fade_start(w2), target,
                                 NoCallback, 0)
                 ELSE repo_set_volume(repo_play(w2, s), s, target)

\* SoundPlayer.play from line 268 on, for a player that has its sound
play(w, outcome) ==
    LET w1 == IF HasSound(w) THEN start_playback(w, outcome) ELSE w
    IN  [w1 EXCEPT !.player.play_visible = FALSE,
                   !.player.pause_visible = TRUE]

\* random_sound() returned None
NoPick == ""

\* the values self.sound_folder.random_sound() may return, as paths
folder_draws(p) ==
    IF p.folder = <<>> THEN {NoPick}
    ELSE {p.folder[i] : i \in 1..Len(p.folder)}

\* mutant: an empty folder still swaps the buttons
player_play_swaps_buttons(w, picked, outcome) ==
    IF w.player.is_folder /\ picked = NoPick
    THEN [w EXCEPT !.player.play_visible = FALSE,
                   !.player.pause_visible = TRUE]
    ELSE IF w.player.is_folder
    THEN play([w EXCEPT !.player.sound =
                            Sound(picked, w.player.loop_mode)], outcome)
    ELSE play(w, outcome)

\* SoundPlayer.play with its folder branch (lines 263-267) in front: a
\* folder player binds the sound drawn from its folder, or returns when
\* there is none
player_play(w, picked, outcome) ==
    IF w.player.is_folder /\ picked = NoPick THEN w
    ELSE IF w.player.is_folder
    THEN play([w EXCEPT !.player.sound =
                            Sound(picked, w.player.loop_mode)], outcome)
    ELSE play(w, outcome)

\* mutant: the fade-out starts from the target of the running fade
pause_current_gain_target(p) ==
    IF p.fade_timer THEN p.fade_end ELSE SliderGain(p.slider)

\* the gain _pause starts its fade-out from
pause_current_gain(p) ==
    IF p.fade_timer
    THEN Interpolate(p.fade_start, p.fade_end, p.fade_elapsed)
    ELSE SliderGain(p.slider)

\* nesting depth of a fade started from the running one
NextDepth(p) ==
    IF p.fade_timer /\ p.fade_elapsed > 0 THEN p.fade_depth + 1
    ELSE p.fade_depth

\* the position _pause remembers for finish()
pause_position(w) == repo_get_position(w, w.player.sound)

\* SoundPlayer._pause, the pause button's slot
pause(w) ==
    IF HasSound(w)
    THEN start_fade(w, pause_current_gain(w.player), 0,
                    Callback(w.player.sound, pause_position(w)),
                    NextDepth(w.player))
    ELSE [stop_fade(w) EXCEPT !.player.pause_visible = FALSE,
                              !.player.play_visible = TRUE]

\* mutant: the running fade is left alone
stop_keeps_fade(w) ==
    LET w2 == IF HasSound(w) THEN repo_stop(w, w.player.sound) ELSE w
    IN  [w2 EXCEPT !.player.pause_visible = FALSE,
                   !.player.play_visible = TRUE]

\* SoundPlayer.stop, the stop button's slot
stop(w) ==
    LET w1 == stop_fade(w)
        w2 == IF HasSound(w1) THEN repo_stop(w1, w1.player.sound) ELSE w1
    IN  [w2 EXCEPT !.player.pause_visible = FALSE,
                   !.player.play_visible = TRUE]

\* SoundPlayer._on_volume_changed, the slider's valueChanged slot
on_volume_changed(w, value) ==
    LET w1 == [w EXCEPT !.player.slider = value]
    IN  IF HasSound(w1)
        THEN repo_set_volume(w1, w1.player.sound, SliderGain(value))
        ELSE w1

\* mutant: every player resets on a finished event
on_playback_finished_any(w, s) ==
    [stop_fade(w) EXCEPT !.player.pause_visible = FALSE,
                         !.player.play_visible = TRUE]

\* SoundPlayer._on_playback_finished
on_playback_finished(w, s) ==
    IF SoundEq(w.player.sound, s)
    THEN [stop_fade(w) EXCEPT !.player.pause_visible = FALSE,
                              !.player.play_visible = TRUE]
    ELSE w

\* a widget bound to no sound, for the repository's side of a media event
NoSoundPlayer ==
    [sound |-> NoSound, fade_timer |-> FALSE, timers |-> 0,
     fade_callback |-> NoCallback, fade_start |-> 0, fade_end |-> 0,
     fade_elapsed |-> 0, fade_depth |-> 0, pause_visible |-> FALSE,
     play_visible |-> TRUE]

\* mutant: the finished event is emitted for looping sounds too
on_status_changed_emits(w, path) ==
    LET h == w.repo.handles[path]
        w1 == Log([w EXCEPT !.repo.handles[path].playing = FALSE],
                  "finished", path, 0)
    IN  IF h.loop
        THEN [w1 EXCEPT !.repo.handles[path].position = 0,
                        !.repo.handles[path].playing = TRUE]
        ELSE on_playback_finished(w1, Sound(path, h.loop))

\* QtSoundRepository._on_status_changed(sound, EndOfMedia), after the
\* QMediaPlayer stopped at the end of its media
on_status_changed(w, path) ==
    LET h == w.repo.handles[path]
        w1 == [w EXCEPT !.repo.handles[path].playing = FALSE]
    IN  IF h.loop
        THEN [w1 EXCEPT !.repo.handles[path].position = 0,
                        !.repo.handles[path].playing = TRUE]
        ELSE on_playback_finished(Log(w1, "finished", path, 0),
                                  Sound(path, h.loop))

----------------------------------------------------------------------------
(* Spec: one player and its repository.                                    *)

\* SoundPlayer.__init__ for a file player or a stream player (is_stream),
\* with the fields of lines 73-100 and the buttons and slider of _setup_ui.
\* Line 78 reads stream_resolved, a name bound nowhere; the widget here is
\* the one that the other lines of the constructor build.
NewPlayer(loop_mode, is_stream) ==
    LET path == IF is_stream THEN LinkUrl ELSE FilePath
    IN  [file_path |-> path, loop_mode |-> loop_mode, is_stream |-> is_stream,
         sound |-> Sound(path, loop_mode), filename |-> path,
         slider |-> SliderInit,
         is_folder |-> FALSE, folder |-> <<>>,
         fade_timer |-> FALSE, timers |-> 0, fade_start |-> 0, fade_end |-> 0,
         fade_elapsed |-> 0, fade_callback |-> NoCallback, fade_depth |-> 0,
         play_visible |-> TRUE, pause_visible |-> FALSE]

\* QtSoundRepository.__init__
NewRepo ==
    [handles |-> [p \in Paths |-> NoHandle],
     volumes |-> [p \in Paths |-> NoVolume],
     master |-> MasterMax, made |-> <<>>]

World == [player |-> player, repo |-> repo, calls |-> <<>>]

NoRequest ==
    [op |-> "none", ticks |-> 0, slider |-> 0, position |-> 0,
     playing |-> FALSE, started |-> FALSE, path |-> "", loop |-> FALSE]

\* a play request: the slider when it was made, whether playback started
PlayRequest(started) ==
    [NoRequest EXCEPT !.op = "play", !.slider = player.slider,
                      !.started = started]

\* a pause request: where the bound sound's media was, and whether playing
PauseRequest ==
    [NoRequest EXCEPT !.op = "pause", !.started = TRUE,
                      !.position = repo_get_position(World, player.sound),
                      !.playing = repo.handles[player.sound.path].playing]

\* a stop request: where the bound sound's media was, and whether playing
StopRequest == [PauseRequest EXCEPT !.op = "stop"]

\* any other request, or an event that resets the widget
OtherRequest(op) == [NoRequest EXCEPT !.op = op]

Count(calls, op) == Cardinality({i \in 1..Len(calls) : calls[i].op = op})

Called(calls, op) == \E i \in 1..Len(calls) : calls[i].op = op

\* the world a handler leaves becomes the next state; step remembers the
\* handler, the resolver's answer, the calls made and, for a request or a
\* tick, the widget as it was before (for the other handlers, as it is)
Commit(w, op, before, outcome) ==
    /\ player' = w.player
    /\ repo' = w.repo
    /\ step' = [op |-> op, before |-> before, outcome |-> outcome,
                calls |-> w.calls]

\* domain outside the specifications that use it
NoDomain == [op |-> "none"]

ResolverIdle == UNCHANGED <<req_url, client, result, domain>>

NoResolve == UNCHANGED resolved

\* the client behaviours a stream player meets: an HTTP error, no audio
\* stream, or one audio stream at the next direct url
PlayerClients ==
    {[fails |-> 1, streams |-> <<>>, title |-> "title"],
     [fails |-> 0, streams |-> <<>>, title |-> "title"]}
    \cup {[fails |-> 0, title |-> "title",
           streams |-> <<[url |-> PlayerUrls[i], mime_type |-> "audio/mp4",
                          abr |-> 128]>>] :
            i \in {resolved + 1} \cap (1..Len(PlayerUrls))}

\* the moments of a running fade at which the model lets a request or a
\* media event arrive between two ticks: three for a file player, the
\* start of the fade for a stream player
ClickTimes(p) == IF p.is_stream THEN {0} ELSE {0, 1000, 2900}

CanClick == ~player.fade_timer \/ player.fade_elapsed \in ClickTimes(player)

Play ==
    \E c \in PlayerClients :
        LET outcome == IF player.is_stream
                       THEN resolve_youtube(player.file_path, c)
                       ELSE NoOutcome
            w == player_play(World, NoPick, outcome)
        IN  /\ CanClick
            /\ resolved' = resolved + (IF outcome.status = "ok" THEN 1 ELSE 0)
            /\ (~player.is_stream => c.fails = 0 /\ c.streams = <<>>)
            /\ Commit(w, "play", player, outcome)
            /\ request' = PlayRequest(Called(w.calls, "play"))
            /\ ResolverIdle

Pause ==
    /\ NoResolve
    /\ CanClick
    /\ NextDepth(player) <= MaxChain
    /\ Commit(pause(World), "pause", player, NoOutcome)
    /\ request' = PauseRequest
    /\ ResolverIdle

Stop ==
    /\ NoResolve
    /\ CanClick
    /\ Commit(stop(World), "stop", player, NoOutcome)
    /\ request' = StopRequest
    /\ ResolverIdle

\* the fade timer fires only while it exists
Tick ==
    /\ NoResolve
    /\ player.fade_timer
    /\ Commit(fade_step(World), "tick", player, NoOutcome)
    /\ request' = IF request.op \in {"play", "pause"}
                  THEN [request EXCEPT !.ticks = @ + 1]
                  ELSE request
    /\ ResolverIdle

\* valueChanged is emitted when the value changes
MoveSlider ==
    \E value \in SliderValues \ {player.slider} :
        /\ CanClick
        /\ NoResolve
        /\ Commit(on_volume_changed(World, value), "slider",
                  on_volume_changed(World, value).player, NoOutcome)
        /\ request' = OtherRequest("slider")
        /\ ResolverIdle

\* the media of a playing handle moves on
Advance ==
    \E path \in Paths :
        /\ CanClick
        /\ repo.handles[path].exists
        /\ repo.handles[path].playing
        /\ repo.handles[path].position < Duration
        /\ repo' = [repo EXCEPT !.handles[path].position = @ + 1]
        /\ step' = [op |-> "advance", before |-> player,
                    outcome |-> NoOutcome, calls |-> <<>>]
        /\ UNCHANGED <<player, request, resolved>>
        /\ ResolverIdle

\* a playing handle reaches the end of its media
EndOfMedia ==
    \E path \in Paths :
        /\ CanClick
        /\ repo.handles[path].exists
        /\ repo.handles[path].playing
        /\ repo.handles[path].position = Duration
        /\ NoResolve
        /\ Commit(on_status_changed(World, path), "end_of_media",
                  on_status_changed(World, path).player, NoOutcome)
        /\ request' = IF ~repo.handles[path].loop /\ player.sound.path = path
                      THEN OtherRequest("finished")
                      ELSE request
        /\ ResolverIdle

Init ==
    /\ \E loop_mode \in BOOLEAN, is_stream \in BOOLEAN :
          player = NewPlayer(loop_mode, is_stream)
    /\ repo = NewRepo
    /\ step = [op |-> "init", before |-> player, outcome |-> NoOutcome,
               calls |-> <<>>]
    /\ request = NoRequest
    /\ resolved = 0
    /\ req_url = <<>>
    /\ client = [fails |-> 0, streams |-> <<>>, title |-> "title"]
    /\ result = NoOutcome
    /\ domain = NoDomain

Next ==
    \/ Play
    \/ Pause
    \/ Stop
    \/ Tick
    \/ MoveSlider
    \/ Advance
    \/ EndOfMedia

Spec == Init /\ [][Next]_vars

----------------------------------------------------------------------------
(* SpecBackend: the QtSoundRepository alone, called the way AudioService   *)
(* forwards to it, for sounds of two sources and either loop flag.         *)

BackendPaths == {FilePath, LinkUrl}
BackendSounds == {Sound(path, loop) : path \in BackendPaths, loop \in BOOLEAN}

\* a call on the backend: the source of the sound passed (and for a play
\* its loop flag), and the session of that source just before
BackendRequest(op, s) ==
    [NoRequest EXCEPT !.op = op, !.path = s.path,
                      !.loop = (op = "play" /\ s.loop),
                      !.position = repo.handles[s.path].position,
                      !.playing = repo.handles[s.path].playing]

BackendCommit(w, op, s) ==
    /\ Commit(w, op, player, NoOutcome)
    /\ request' = BackendRequest(op, s)
    /\ NoResolve
    /\ ResolverIdle

BackendPlay ==
    \E s \in BackendSounds : BackendCommit(repo_play(World, s), "play", s)

BackendPause ==
    \E s \in BackendSounds : BackendCommit(repo_pause(World, s), "pause", s)

BackendStop ==
    \E s \in BackendSounds : BackendCommit(repo_stop(World, s), "stop", s)

BackendSetVolume ==
    \E s \in BackendSounds, value \in SliderValues :
        BackendCommit(repo_set_volume(World, s, SliderGain(value)),
                      "set_volume", s)

BackendSetMaster ==
    \E volume \in MasterGains \ {repo.master} :
        /\ Commit(repo_set_master_volume(World, volume),
                  "set_master_volume", player, NoOutcome)
        /\ request' = OtherRequest("set_master_volume")
        /\ NoResolve
        /\ ResolverIdle

\* the media of a playing session moves on
BackendAdvance ==
    \E s \in BackendSounds :
        /\ repo.handles[s.path].exists
        /\ repo.handles[s.path].loop = s.loop
        /\ repo.handles[s.path].playing
        /\ repo.handles[s.path].position < Duration
        /\ BackendCommit([World EXCEPT
                             !.repo.handles[s.path].position = @ + 1],
                         "advance", s)

\* a playing session reaches the end of its media
BackendEndOfMedia ==
    \E s \in BackendSounds :
        /\ repo.handles[s.path].exists
        /\ repo.handles[s.path].loop = s.loop
        /\ repo.handles[s.path].playing
        /\ repo.handles[s.path].position = Duration
        /\ BackendCommit(on_status_changed(World, s.path),
                         "end_of_media", s)

InitBackend ==
    /\ player = NewPlayer(FALSE, FALSE)
    /\ repo = NewRepo
    /\ step = [op |-> "init", before |-> player, outcome |-> NoOutcome,
               calls |-> <<>>]
    /\ request = NoRequest
    /\ resolved = 0
    /\ req_url = <<>>
    /\ client = [fails |-> 0, streams |-> <<>>, title |-> "title"]
    /\ result = NoOutcome
    /\ domain = NoDomain

NextBackend ==
    \/ BackendPlay
    \/ BackendPause
    \/ BackendStop
    \/ BackendSetVolume
    \/ BackendSetMaster
    \/ BackendAdvance
    \/ BackendEndOfMedia

SpecBackend == InitBackend /\ [][NextBackend]_vars

----------------------------------------------------------------------------
(* SpecResolve: resolve_youtube on every bounded url and client.           *)

InitResolve ==
    /\ req_url \in InputUrls
    /\ client \in Clients
    /\ result = NoOutcome
    /\ domain = NoDomain
    /\ player = NewPlayer(FALSE, TRUE)
    /\ repo = NewRepo
    /\ step = [op |-> "init", before |-> player, outcome |-> NoOutcome,
               calls |-> <<>>]
    /\ request = NoRequest
    /\ resolved = 0

Resolve ==
    /\ result = NoOutcome
    /\ result' = resolve_youtube(req_url, client)
    /\ UNCHANGED <<player, repo, step, request, resolved, req_url, client,
                   domain>>

NextResolve == Resolve

SpecResolve == InitResolve /\ [][NextResolve]_vars


----------------------------------------------------------------------------
(* SpecSound: Sound.__eq__ and Sound.__hash__ on every pair of bounded     *)
(* Sound values, and a dict keyed by Sound.                                *)

\* the variables of the player and of the resolver, outside their
\* specifications
InitOthers ==
    /\ player = NewPlayer(FALSE, FALSE)
    /\ repo = NewRepo
    /\ step = [op |-> "init", before |-> player, outcome |-> NoOutcome,
               calls |-> <<>>]
    /\ request = NoRequest
    /\ resolved = 0
    /\ req_url = <<>>
    /\ client = [fails |-> 0, streams |-> <<>>, title |-> "title"]
    /\ result = NoOutcome

OthersIdle ==
    UNCHANGED <<player, repo, step, request, resolved, req_url, client,
                result>>

\* a source reference: a str or a Path, written as its components
Ref(kind, parts) == [kind |-> kind, parts |-> parts]
RawPaths == {<<"a.mp3">>, <<".", "a.mp3">>, <<"b.mp3">>}
Refs == {Ref(kind, parts) : kind \in {"str", "Path"}, parts \in RawPaths}

RECURSIVE DropDots(_)
\* Path drops the "." components of what it is given
DropDots(parts) ==
    IF parts = <<>> THEN <<>>
    ELSE IF Head(parts) = "." THEN DropDots(Tail(parts))
    ELSE <<Head(parts)>> \o DropDots(Tail(parts))

\* str(path): a str is itself, a Path is written in its normal form
Str(ref) == IF ref.kind = "Path" THEN DropDots(ref.parts) ELSE ref.parts

SoundValues == {Sound(ref, loop) : ref \in Refs, loop \in BOOLEAN}

\* hash of a str: equal strings have equal hashes, and unequal strings may
\* collide (here the strings of one length do)
StrHash(s) == Len(s)

\* Sound.__hash__
Sound_hash(s) == StrHash(Str(s.path))

\* mutant: the loop flag takes part in the comparison
Sound_eq_with_loop(a, b) == Str(a.path) = Str(b.path) /\ a.loop = b.loop

\* Sound.__eq__ for two Sound values
Sound_eq(a, b) == Str(a.path) = Str(b.path)

\* d = {a: ...}; b in d: the dict finds a key of equal hash that is equal
DictHas(keys, b) ==
    \E a \in keys : Sound_hash(a) = Sound_hash(b) /\ Sound_eq(a, b)

InitSound ==
    /\ InitOthers
    /\ \E a \in SoundValues, b \in SoundValues :
          domain = [op |-> "init", a |-> a, b |-> b, eq |-> FALSE,
                    hash_a |-> 0, hash_b |-> 0, found |-> FALSE]

Compare ==
    /\ domain.op = "init"
    /\ domain' = [domain EXCEPT
                    !.op = "compare",
                    !.eq = Sound_eq(domain.a, domain.b),
                    !.hash_a = Sound_hash(domain.a),
                    !.hash_b = Sound_hash(domain.b),
                    !.found = DictHas({domain.a}, domain.b)]
    /\ OthersIdle

NextSound == Compare

SpecSound == InitSound /\ [][NextSound]_vars

----------------------------------------------------------------------------
(* SpecFolder: SoundFolder.scan and random_sound, and the listings of      *)
(* FileSystemSoundRepository, on a path whose content changes.             *)

\* an entry of a directory: name = stem + suffix; for a subdirectory,
\* audio tells whether it holds an audio file
Entry(stem, suffix, kind, audio) ==
    [stem |-> stem, suffix |-> suffix, kind |-> kind, audio |-> audio]

Entries ==
    {Entry("a", ".mp3", "file", FALSE), Entry("b", ".MP3", "file", FALSE),
     Entry("c", ".wav", "file", FALSE), Entry("d", ".ogg", "file", FALSE),
     Entry("e", ".m4a", "file", FALSE), Entry("f", ".Flac", "file", FALSE),
     Entry("g", ".aac", "file", FALSE), Entry("h", ".txt", "file", FALSE),
     Entry("i", "", "file", FALSE), Entry("j", ".mp3", "dir", FALSE),
     Entry("k", "", "dir", TRUE)}

\* random_sound's None
NoEntry == Entry("", "", "none", FALSE)

\* str.lower() on the suffixes met here
Lower(s) ==
    CASE s = ".MP3" -> ".mp3"
      [] s = ".Flac" -> ".flac"
      [] OTHER -> s

AUDIO_EXTENSIONS == {".mp3", ".wav", ".ogg", ".m4a", ".flac", ".aac"}

\* mutant: the suffix is compared as it is written
suffix_key_exact(p) == p.suffix

\* p.suffix.lower()
suffix_key(p) == Lower(p.suffix)

\* "p.is_file() and p.suffix.lower() in AUDIO_EXTENSIONS"
IsAudioFile(p) == p.kind = "file" /\ suffix_key(p) \in AUDIO_EXTENSIONS

Range(q) == {q[i] : i \in 1..Len(q)}

\* most entries of the directory
MaxEntries == 2

\* what is at the path: nothing, a regular file, or a directory with its
\* entries
Missing == [kind |-> "missing", entries |-> {}]
RegularFile == [kind |-> "file", entries |-> {}]
Directory(entries) == [kind |-> "dir", entries |-> entries]
FolderStates ==
    {Missing, RegularFile}
        \cup {Directory(S) : S \in {T \in SUBSET Entries :
                                       Cardinality(T) <= MaxEntries}}

\* the order in which the file system hands out names: one fixed order,
\* which is not the alphabetical one
DirOrder == <<"g", "c", "k", "a", "h", "e", "j", "b", "i", "f", "d">>

\* fs.iterdir(): the entries of the directory in that order
iterdir(fs) ==
    LET At(i) == {e \in fs.entries : e.stem = DirOrder[i]}
        F[i \in 0..Len(DirOrder)] ==
            IF i = 0 THEN <<>>
            ELSE IF At(i) = {} THEN F[i - 1]
            ELSE Append(F[i - 1], CHOOSE e \in At(i) : TRUE)
    IN  F[Len(DirOrder)]

\* SoundFolder.scan: the new value of self.sounds
scan(fs) ==
    IF fs.kind # "dir" THEN <<>>
    ELSE SelectSeq(iterdir(fs), IsAudioFile)

\* mutant: None may come back from a folder that has sounds
random_sound_or_none(sounds) == Range(sounds) \cup {NoEntry}

\* SoundFolder.random_sound: the values random.choice may return
random_sound(sounds) ==
    IF sounds = <<>> THEN {NoEntry} ELSE Range(sounds)

\* p.stem.lower() as a sort key: the place of the stem in alphabetical
\* order (the stems here are single lower-case letters)
Alphabet == <<"a", "b", "c", "d", "e", "f", "g", "h", "i", "j", "k">>
StemKey(p) == CHOOSE i \in 1..Len(Alphabet) : Alphabet[i] = p.stem

RECURSIVE InsertByStem(_, _)
\* sorted(..., key=lambda p: p.stem.lower()), a stable sort
InsertByStem(q, x) ==
    IF q = <<>> THEN <<x>>
    ELSE IF StemKey(q[Len(q)]) <= StemKey(x) THEN Append(q, x)
    ELSE Append(InsertByStem(SubSeq(q, 1, Len(q) - 1), x), q[Len(q)])

RECURSIVE SortByStem(_)
SortByStem(q) ==
    IF q = <<>> THEN <<>>
    ELSE InsertByStem(SortByStem(SubSeq(q, 1, Len(q) - 1)), q[Len(q)])

Listing(raised, items) == [raised |-> raised, items |-> items]

\* "p.is_dir() and any audio file in p.iterdir()"
IsAudioFolder(p) == p.kind = "dir" /\ p.audio

\* FileSystemSoundRepository.list_audio_files: iterdir() on a path that is
\* no directory raises
list_audio_files(fs) ==
    IF fs.kind = "missing" THEN Listing("", <<>>)
    ELSE IF fs.kind # "dir" THEN Listing("NotADirectoryError", <<>>)
    ELSE Listing("", SortByStem(SelectSeq(iterdir(fs), IsAudioFile)))

\* FileSystemSoundRepository.list_audio_folders
list_audio_folders(fs) ==
    IF fs.kind = "missing" THEN Listing("", <<>>)
    ELSE IF fs.kind # "dir" THEN Listing("NotADirectoryError", <<>>)
    ELSE Listing("", SortByStem(SelectSeq(iterdir(fs), IsAudioFolder)))

NoListing == Listing("", <<>>)

InitFolder ==
    /\ InitOthers
    /\ \E fs \in FolderStates :
          domain = [op |-> "init", fs |-> fs, sounds |-> <<>>,
                    before |-> <<>>, picked |-> NoEntry,
                    listing |-> NoListing]

\* the last call, what it left and the sound list as it was before
FolderStep(op, sounds, picked, listing) ==
    /\ domain' = [domain EXCEPT !.op = op, !.sounds = sounds,
                                !.before = domain.sounds,
                                !.picked = picked, !.listing = listing]
    /\ OthersIdle

Scan == FolderStep("scan", scan(domain.fs), NoEntry, NoListing)

RandomSound ==
    \E picked \in random_sound(domain.sounds) :
        FolderStep("random_sound", domain.sounds, picked, NoListing)

ListAudioFiles ==
    FolderStep("list_audio_files", domain.sounds, NoEntry,
               list_audio_files(domain.fs))

ListAudioFolders ==
    FolderStep("list_audio_folders", domain.sounds, NoEntry,
               list_audio_folders(domain.fs))

\* the content at the path changes: an entry goes or comes, or the path
\* becomes an empty directory, a regular file or nothing
ChangeFolder ==
    /\ \E fs \in {Missing, RegularFile, Directory({})}
                  \cup {Directory(domain.fs.entries \ {e}) :
                            e \in domain.fs.entries}
                  \cup {Directory(domain.fs.entries \cup {e}) :
                            e \in {x \in Entries : domain.fs.kind = "dir"}} :
          /\ Cardinality(fs.entries) <= MaxEntries
          /\ fs # domain.fs
          /\ domain' = [domain EXCEPT !.op = "change", !.fs = fs,
                                      !.before = domain.sounds,
                                      !.picked = NoEntry,
                                      !.listing = NoListing]
    /\ OthersIdle

NextFolder ==
    \/ Scan
    \/ RandomSound
    \/ ListAudioFiles
    \/ ListAudioFolders
    \/ ChangeFolder

SpecFolder == InitFolder /\ [][NextFolder]_vars

----------------------------------------------------------------------------
(* SpecSection: the construction of a SoundSection on a folder, which      *)
(* lists the folder and its youtube_links.csv and builds the players.      *)

\* most rows of youtube_links.csv
MaxRows == 2

\* the url column of a row; "" stands for an empty or missing value
RowUrls == {"", "https://a", "https://b"}

\* the title YouTube gives for a link
TitleOf(url) == IF url = "https://a" THEN "Title A" ELSE "Title B"

\* youtube_links.csv: absent, or its rows in order
NoCsv == [exists |-> FALSE, rows |-> <<>>]
Csv(rows) == [exists |-> TRUE, rows |-> rows]
CsvStates == {NoCsv} \cup {Csv(q) : q \in SeqsUpTo(RowUrls, MaxRows)}

\* what a section folder may hold besides the csv
SectionEntries ==
    {e \in Entries : e.stem \in {"a", "b", "h", "j", "k"}}
SectionFolders ==
    {fs \in FolderStates : fs.entries \subseteq SectionEntries}

\* a path handed to a player: a directory entry or a link
LinkPath(url) == Entry(url, "", "link", FALSE)

\* SoundPlayer.__init__ up to the first statement that raises: line 78
\* reads stream_resolved, a name bound nowhere, so no widget is built
SoundPlayer(file_path, is_folder, is_stream, display_name) ==
    [raised |-> "NameError", file_path |-> file_path,
     is_folder |-> is_folder, is_stream |-> is_stream, filename |-> ""]

\* the try/except around _resolve_youtube: the title stays the url when
\* the resolution raises
link_title(url, fails) == IF url \in fails THEN url ELSE TitleOf(url)

RECURSIVE youtube_links(_, _)
\* the (url, title) pairs of the rows whose url is not empty
youtube_links(rows, fails) ==
    IF rows = <<>> THEN <<>>
    ELSE (IF Head(rows) = "" THEN <<>>
          ELSE <<[url |-> Head(rows),
                  title |-> link_title(Head(rows), fails)]>>)
             \o youtube_links(Tail(rows), fails)

\* the folders (EFFECTS sections only) and then the files, each sorted
all_items(title, fs) ==
    (IF title = "EFFECTS"
        THEN SortByStem(SelectSeq(iterdir(fs), IsAudioFolder))
        ELSE <<>>)
        \o SortByStem(SelectSeq(iterdir(fs), IsAudioFile))

Loaded(raised, label, players, links) ==
    [raised |-> raised, label |-> label, players |-> players,
     links |-> links]

RECURSIVE build_players(_, _)
\* the two loops that construct a player for each argument tuple and
\* append it; an exception of a constructor leaves the loops
build_players(loaded, args) ==
    IF args = <<>> \/ loaded.raised # "" THEN loaded
    ELSE LET a == Head(args)
             made == SoundPlayer(a.path, a.is_folder, a.is_stream, a.name)
         IN  IF made.raised # ""
                THEN [loaded EXCEPT !.raised = made.raised]
                ELSE build_players(
                         [loaded EXCEPT !.players = Append(@, made)],
                         Tail(args))

\* SoundSection._load_sounds
load_sounds(title, fs, csv, fails) ==
    IF fs.kind = "missing" THEN Loaded("", "noFolderLabel", <<>>, <<>>)
    ELSE IF fs.kind # "dir"
        THEN Loaded("NotADirectoryError", "", <<>>, <<>>)
    ELSE LET items == all_items(title, fs)
             links == IF csv.exists THEN youtube_links(csv.rows, fails)
                      ELSE <<>>
             local == [i \in 1..Len(items) |->
                          [path |-> items[i],
                           is_folder |-> items[i].kind = "dir",
                           is_stream |-> FALSE, name |-> ""]]
             streams == [i \in 1..Len(links) |->
                            [path |-> LinkPath(links[i].url),
                             is_folder |-> FALSE, is_stream |-> TRUE,
                             name |-> links[i].title]]
         IN  IF items = <<>> /\ links = <<>>
                THEN Loaded("", "noFilesLabel", <<>>, <<>>)
                ELSE build_players(Loaded("", "", <<>>, links),
                                   local \o streams)

NotLoaded == Loaded("", "", <<>>, <<>>)

\* a section about to be constructed: its title, what its folder holds,
\* and the links whose resolution raises
InitSection ==
    /\ InitOthers
    /\ \E title \in {"MUSIC", "EFFECTS"}, fs \in SectionFolders,
          csv \in CsvStates, fails \in SUBSET (RowUrls \ {""}) :
          /\ csv.exists => fs.kind = "dir"
          /\ domain = [op |-> "init", title |-> title, fs |-> fs,
                       csv |-> csv, fails |-> fails, loaded |-> NotLoaded]

\* SoundSection(title, folder_path, service)
NewSection ==
    /\ domain.op = "init"
    /\ domain' = [domain EXCEPT
                     !.op = "load",
                     !.loaded = load_sounds(domain.title, domain.fs,
                                            domain.csv, domain.fails)]
    /\ OthersIdle

NextSection == NewSection

SpecSection == InitSection /\ [][NextSection]_vars

----------------------------------------------------------------------------
(* SpecBoard: the players of a section on one service and repository: file *)
(* players, stream players and folder players, with stop-all.  The widgets *)
(* are those that the constructor lines other than 78 build.               *)

\* SoundPlayer.__init__ with is_folder: the folder is scanned once, no sound
\* is bound yet
NewFolderPlayer(loop_mode, sounds) ==
    [NewPlayer(loop_mode, FALSE) EXCEPT
        !.file_path = "folder", !.filename = "folder",
        !.is_folder = TRUE, !.folder = sounds, !.sound = NoSound]

\* the players a section is built with: a file, a link, a folder with two
\* audio files, a folder without any
BoardKinds == {"file", "stream", "folder", "empty"}

BoardPlayer(kind, loop_mode) ==
    CASE kind = "file" -> NewPlayer(loop_mode, FALSE)
      [] kind = "stream" -> NewPlayer(loop_mode, TRUE)
      [] kind = "folder" -> NewFolderPlayer(loop_mode, <<"a", "b">>)
      [] OTHER -> NewFolderPlayer(loop_mode, <<>>)

\* the players of the section, by place
Places == DOMAIN domain.players

\* the places whose fade timer is running
Fading == {i \in Places : domain.players[i].fade_timer}

\* the world the handlers of the player at place i act on
BoardWorld(i) ==
    [player |-> domain.players[i], repo |-> repo, calls |-> <<>>]

\* the moments of a fade at which the section's model lets a request or an
\* event arrive: its start
BoardClickTimes == {0}

RECURSIVE fade_steps(_, _)
\* n timeouts of the fade timer in a row
fade_steps(w, n) ==
    IF n = 0 \/ ~w.player.fade_timer THEN w
    ELSE fade_steps(fade_step(w), n - 1)

\* the ticks from where the fade is to the next of those moments, or to
\* its end
TicksAhead(p) ==
    LET ahead == {c \in BoardClickTimes : c > p.fade_elapsed}
    IN  IF ahead = {} THEN (FadeMs - p.fade_elapsed) \div TickMs
        ELSE ((CHOOSE c \in ahead : \A d \in ahead : c <= d)
                  - p.fade_elapsed) \div TickMs

\* what the last handler did: to which player (0: to all), the sound drawn
\* from a folder, the source of a media event and the fades that were
\* running when it arrived
BoardCommit(w, i, op, picked, outcome) ==
    /\ domain' = [players |-> [domain.players EXCEPT ![i] = w.player],
                  who |-> i, picked |-> picked, path |-> "",
                  fading |-> {}]
    /\ repo' = w.repo
    /\ step' = [op |-> op, before |-> NoSoundPlayer, outcome |-> outcome,
                calls |-> w.calls]
    /\ UNCHANGED <<player, request, req_url, client, result>>

BoardPlay ==
    \E i \in Places, c \in PlayerClients :
        \E picked \in folder_draws(domain.players[i]) :
            LET p == domain.players[i]
                outcome == IF p.is_stream THEN resolve_youtube(p.file_path, c)
                           ELSE NoOutcome
            IN  /\ (~p.is_stream => c.fails = 0 /\ c.streams = <<>>)
                /\ resolved' = resolved
                       + (IF outcome.status = "ok" THEN 1 ELSE 0)
                /\ BoardCommit(player_play(BoardWorld(i), picked, outcome),
                               i, "play", picked, outcome)

BoardPause ==
    \E i \in Places :
        /\ NextDepth(domain.players[i]) <= MaxChain
        /\ NoResolve
        /\ BoardCommit(pause(BoardWorld(i)), i, "pause", NoPick, NoOutcome)

BoardStop ==
    \E i \in Places :
        /\ NoResolve
        /\ BoardCommit(stop(BoardWorld(i)), i, "stop", NoPick, NoOutcome)

\* the fade timer of a player fires until the next moment of its fade
BoardTick ==
    \E i \in Places :
        /\ domain.players[i].fade_timer
        /\ NoResolve
        /\ BoardCommit(fade_steps(BoardWorld(i),
                                  TicksAhead(domain.players[i])),
                       i, "tick", NoPick, NoOutcome)

\* SoundSection.stop_all: stop() on each player in turn
stop_all(players, r) ==
    LET F[i \in 0..Len(players)] ==
            IF i = 0 THEN [players |-> players, repo |-> r, calls |-> <<>>]
            ELSE LET w == stop([player |-> F[i - 1].players[i],
                                repo |-> F[i - 1].repo,
                                calls |-> F[i - 1].calls])
                 IN  [players |-> [F[i - 1].players EXCEPT ![i] = w.player],
                      repo |-> w.repo, calls |-> w.calls]
    IN  F[Len(players)]

StopAll ==
    LET done == stop_all(domain.players, repo)
    IN  /\ domain' = [players |-> done.players, who |-> 0,
                      picked |-> NoPick, path |-> "", fading |-> {}]
        /\ repo' = done.repo
        /\ step' = [op |-> "stop_all", before |-> NoSoundPlayer,
                    outcome |-> NoOutcome, calls |-> done.calls]
        /\ UNCHANGED <<player, request, resolved, req_url, client, result>>

\* the playback_finished signal reaches the slot of every player
emit_finished(players, r, s) ==
    [i \in DOMAIN players |->
        on_playback_finished([player |-> players[i], repo |-> r,
                              calls |-> <<>>], s).player]

\* the media of a playing session runs to its end: the repository loops it
\* or emits finished, which AudioService forwards to the players
BoardEndOfMedia ==
    \E path \in Paths :
        LET h == repo.handles[path]
            ended == [repo EXCEPT !.handles[path].position = Duration]
            w == on_status_changed([player |-> NoSoundPlayer, repo |-> ended,
                                    calls |-> <<>>], path)
        IN  /\ h.exists /\ h.playing
            /\ domain' = [players |->
                              IF Called(w.calls, "finished")
                              THEN emit_finished(domain.players, w.repo,
                                                 Sound(path, h.loop))
                              ELSE domain.players,
                          who |-> 0, picked |-> NoPick, path |-> path,
                          fading |-> Fading]
            /\ repo' = w.repo
            /\ step' = [op |-> "end_of_media", before |-> NoSoundPlayer,
                        outcome |-> NoOutcome, calls |-> w.calls]
            /\ UNCHANGED <<player, request, resolved, req_url, client,
                           result>>

\* a section of two players with the section's loop mode: a player of any
\* kind next to a file player
InitBoard ==
    /\ InitOthers
    /\ \E loop_mode \in BOOLEAN, k1 \in BoardKinds, k2 \in {"file"} :
          domain = [players |-> <<BoardPlayer(k1, loop_mode),
                                  BoardPlayer(k2, loop_mode)>>,
                    who |-> 0, picked |-> NoPick, path |-> "",
                    fading |-> {}]

NextBoard ==
    \/ BoardPlay
    \/ BoardPause
    \/ BoardStop
    \/ BoardTick
    \/ StopAll
    \/ BoardEndOfMedia

SpecBoard == InitBoard /\ [][NextBoard]_vars

\* ---------------------------------------------------------------------
\* Properties of the player, under Spec
\* ---------------------------------------------------------------------

Volume(path) == repo.volumes[path]

Handle(path) == repo.handles[path]

\* the gain the fade that the last request interrupted had reached
InterruptedGain ==
    Interpolate(step.before.fade_start, step.before.fade_end,
                step.before.fade_elapsed)

\* the last handler was a request that came while a fade ran and that
\* left a new fade running
PauseStartedFade == step.op = "pause" /\ step.before.fade_timer

PlayStartedFade ==
    /\ step.op = "play" /\ step.before.fade_timer
    /\ Called(step.calls, "play") /\ player.loop_mode

\* C1: a pause request that arrives while a fade runs cancels it and starts
\* its fade-out from the gain the cancelled fade had reached; a play request
\* that arrives while a fade runs cancels it and starts its fade-in at 0.
C1_FadeStart ==
    /\ PauseStartedFade =>
          /\ player.fade_timer /\ player.fade_elapsed = 0
          /\ player.fade_start = InterruptedGain
          /\ player.fade_end = 0
          /\ player.fade_callback =
                 Callback(player.sound, request.position)
    /\ PlayStartedFade =>
          /\ player.fade_timer /\ player.fade_elapsed = 0
          /\ player.fade_start = 0
          /\ player.fade_end = SliderGain(player.slider)
          /\ player.fade_callback = NoCallback
          /\ Volume(player.sound.path) = 0

C1_Witness ==
    /\ PauseStartedFade
    /\ step.before.fade_elapsed > 0
    /\ InterruptedGain \notin {0, step.before.fade_end}
    /\ player.fade_start = InterruptedGain

\* C1 as stated: whichever request starts the new fade, play or pause, the
\* new fade starts from the gain the cancelled one had reached.
C1_Original ==
    (PauseStartedFade \/ PlayStartedFade) =>
        /\ player.fade_timer /\ player.fade_elapsed = 0
        /\ player.fade_start = InterruptedGain

\* C2: in loop mode, 30 ticks after a play request that started playback
\* with slider value s the per-sound gain equals s/100 and the fade timer
\* is stopped; before the 30th tick the timer runs and, for s > 0, the gain
\* is strictly below s/100.
C2_FadeInReachesTarget ==
    (player.loop_mode /\ request.op = "play" /\ request.started) =>
        /\ request.ticks <= FadeTicks
        /\ request.ticks = FadeTicks =>
              /\ Volume(player.sound.path) = SliderGain(request.slider)
              /\ ~player.fade_timer
        /\ request.ticks < FadeTicks =>
              /\ player.fade_timer
              /\ request.slider > 0 =>
                    Volume(player.sound.path) < SliderGain(request.slider)

C2_Witness ==
    /\ player.loop_mode /\ request.op = "play" /\ request.started
    /\ request.ticks = FadeTicks /\ request.slider > 0
    /\ step.op = "tick"
    /\ Volume(player.sound.path) = SliderGain(request.slider)

\* the calls of the completion of a pause of sound `path` made at position
PauseCompletion(path, position) ==
    <<Call("set_volume", path, 0), Call("pause", path, 0),
      Call("set_position", path, position)>>

\* C3: a pause request starts a fade-out to 0 and issues no backend pause;
\* the backend pause is issued only by the tick that completes that fade,
\* the 30th uninterrupted one, and it is followed by setting the position
\* back to the one recorded at the request and by showing the play button
\* in place of the pause button.
C3_PauseAfterFadeOut ==
    /\ step.op = "pause" =>
          /\ player.fade_timer /\ player.fade_end = 0
          /\ ~Called(step.calls, "pause")
    /\ Called(step.calls, "pause") =>
          /\ step.op = "tick"
          /\ step.before.fade_callback.set
          /\ step.before.fade_elapsed + TickMs = FadeMs
          /\ step.calls = PauseCompletion(step.before.fade_callback.path,
                                          step.before.fade_callback.position)
          /\ player.play_visible /\ ~player.pause_visible
    /\ request.op = "pause" =>
          /\ request.ticks <= FadeTicks
          /\ request.ticks < FadeTicks => ~Called(step.calls, "pause")
          /\ (request.ticks = FadeTicks /\ step.op = "tick") =>
                /\ step.calls =
                       PauseCompletion(player.sound.path, request.position)
                /\ ~player.fade_timer
                /\ player.play_visible /\ ~player.pause_visible
                /\ Handle(player.sound.path).exists =>
                      /\ ~Handle(player.sound.path).playing
                      /\ Handle(player.sound.path).position =
                             request.position

C3_Witness ==
    /\ request.op = "pause" /\ request.playing
    /\ request.ticks = FadeTicks /\ step.op = "tick"
    /\ Called(step.calls, "pause")
    /\ Handle(player.sound.path).position = request.position
    /\ player.play_visible

C6_FailedPlayChangesNothing ==
    (step.op = "play" /\ player.is_stream /\ step.outcome.status = "raised")
        => /\ ~Called(step.calls, "play")
           /\ player = step.before

\* the failed play leaves everything but the two buttons
C6_FailedPlayKeepsSound ==
    (step.op = "play" /\ player.is_stream /\ step.outcome.status = "raised")
        => /\ ~Called(step.calls, "play")
           /\ player = [step.before EXCEPT !.play_visible = FALSE,
                                           !.pause_visible = TRUE]

\* C7: every play request on a stream player calls the resolver exactly
\* once, with the original link and before anything reaches the backend;
\* when the resolver answers, the backend play is issued for the url of
\* this answer, and for no other.
C7_ResolvesOnEveryPlay ==
    (step.op = "play" /\ player.is_stream) =>
        /\ Count(step.calls, "resolve") = 1
        /\ step.calls[1] = Call("resolve", LinkUrl, 0)
        /\ player.file_path = LinkUrl
        /\ step.outcome.status = "ok" =>
              /\ Count(step.calls, "play") = 1
              /\ player.sound.path = step.outcome.url
        /\ \A i \in 1..Len(step.calls) :
              step.calls[i].op = "play" =>
                  /\ step.outcome.status = "ok"
                  /\ step.calls[i].path = step.outcome.url

C7_Witness ==
    /\ step.op = "play" /\ player.is_stream
    /\ step.before.sound.path = PlayerUrls[1]
    /\ step.outcome.url = PlayerUrls[2]
    /\ Called(step.calls, "play")
    /\ player.sound.path = PlayerUrls[2]


\* ---------------------------------------------------------------------
\* Properties of resolve_youtube, under SpecResolve
\* ---------------------------------------------------------------------

Resolved == result # NoOutcome

\* the audio-only streams the client offers, and those in the mp4 container
AudioStreams ==
    {client.streams[i] : i \in {j \in 1..Len(client.streams) :
                                    IsAudioOnly(client.streams[j])}}

Mp4Streams == {s \in AudioStreams : s.mime_type = "audio/mp4"}

\* the result is the stream of the set with the highest bitrate
ReturnsBestOf(streams) ==
    /\ result.status = "ok"
    /\ \E s \in streams :
          /\ result.url = s.url
          /\ \A other \in streams : other.abr <= s.abr

\* C8 as stated: when the client raises an HTTP error on its first two
\* invocations and would succeed on the third, resolve_youtube returns the
\* url and title of the successful call after exactly 3 invocations.
C8_RetriesTwice ==
    (Resolved /\ client.fails = 2 /\ AudioStreams # {}) =>
        /\ result.status = "ok"
        /\ result.url = select_stream(client.streams).url
        /\ result.title = client.title
        /\ result.calls = 3

\* C9 as stated: for an input in the music-subdomain form or the short-link
\* form, every url handed to the client begins with the canonical form for
\* the same video id.
C9_NormalizesUrl ==
    \A id \in VideoIds :
        (Resolved /\ req_url \in {MusicUrl(id), ShortUrl(id)}) =>
            /\ result.passed # <<>>
            /\ \A i \in 1..Len(result.passed) :
                  StartsWith(result.passed[i], CanonicalUrl(id))

\* C10: when the client call succeeds, resolve_youtube returns the
\* highest-bitrate audio/mp4 stream if there is one, whatever the bitrates
\* of the other streams; failing that the highest-bitrate audio-only stream
\* of any type; and with no audio-only stream it raises an error and
\* returns nothing.
C10_PrefersMp4 ==
    (Resolved /\ client.fails = 0) =>
        /\ Mp4Streams # {} => ReturnsBestOf(Mp4Streams)
        /\ (Mp4Streams = {} /\ AudioStreams # {}) =>
              ReturnsBestOf(AudioStreams)
        /\ AudioStreams = {} =>
              /\ result.status = "raised"
              /\ result.error = "ValueError"
              /\ result.url = ""

C10_Witness ==
    /\ Resolved /\ client.fails = 0
    /\ result.status = "ok" /\ result.url = "mp4_128"
    /\ \E s \in AudioStreams : s.mime_type = "audio/webm" /\ s.abr = 160


\* ---------------------------------------------------------------------
\* Properties of the QtSoundRepository, under SpecBackend
\* ---------------------------------------------------------------------

\* C12: at end-of-media a session whose loop flag is set is sought to 0 and
\* plays on, and no finished event is emitted; a session whose loop flag is
\* not set stays stopped where it ended, and exactly one finished event is
\* emitted, carrying the identity of that session.
C12_EndOfMedia ==
    step.op = "end_of_media" =>
        IF Handle(request.path).loop
        THEN /\ Handle(request.path).playing
             /\ Handle(request.path).position = 0
             /\ ~Called(step.calls, "finished")
        ELSE /\ ~Handle(request.path).playing
             /\ Handle(request.path).position = request.position
             /\ step.calls = <<Call("finished", request.path, 0)>>

C12_Witness ==
    /\ step.op = "end_of_media"
    /\ Handle(request.path).loop
    /\ request.position = Duration
    /\ Handle(request.path).playing
    /\ Handle(request.path).position = 0
    /\ step.calls = <<>>

\* C13: after the backend stop on a live session the session is not playing
\* and its position is 0; after the backend pause it is not playing and its
\* position is the one it had just before.
C13_StopRewindsPauseKeeps ==
    /\ (step.op = "stop" /\ Handle(request.path).exists) =>
          /\ ~Handle(request.path).playing
          /\ Handle(request.path).position = 0
    /\ (step.op = "pause" /\ Handle(request.path).exists) =>
          /\ ~Handle(request.path).playing
          /\ Handle(request.path).position = request.position

C13_Witness ==
    /\ step.op = "pause" /\ Handle(request.path).exists
    /\ request.playing /\ request.position > 0
    /\ ~Handle(request.path).playing
    /\ Handle(request.path).position = request.position

LivePaths == {p \in Paths : Handle(p).exists}

\* C14: the output gain of every live session is the stored per-sound gain
\* of its identity times the current master gain, whatever calls were made.
C14_OutputIsProduct ==
    \A p \in LivePaths :
        /\ Volume(p) # NoVolume
        /\ Handle(p).output = Volume(p) * repo.master

C14_Witness ==
    /\ step.op = "set_master_volume"
    /\ repo.master = MasterMax \div 2
    /\ Cardinality(LivePaths) = 2
    /\ \A p \in LivePaths :
          Volume(p) > 0 /\ Handle(p).output = Volume(p) * repo.master
    /\ \E p, q \in LivePaths : Volume(p) # Volume(q)

MadePaths == {repo.made[i].path : i \in 1..Len(repo.made)}

\* a play of a source that has a handle reuses it; any other step leaves
\* the handles made so far, and a play adds at most one
HandlesGrow ==
    /\ Len(repo.made) <= Len(repo'.made)
    /\ Len(repo'.made) <= Len(repo.made) + 1
    /\ SubSeq(repo'.made, 1, Len(repo.made)) = repo.made
    /\ \A p \in Paths : Handle(p).exists => repo'.handles[p].exists
    /\ Len(repo'.made) > Len(repo.made) =>
          /\ step'.op = "play"
          /\ request'.path \notin MadePaths

\* C16: the backend holds exactly one handle per distinct source that has
\* been played, made by the first play of that source; a later play of the
\* source, with either loop flag, reuses it, and no step removes a handle.
C16_OneHandlePerIdentity ==
    /\ [](/\ Cardinality(MadePaths) = Len(repo.made)
          /\ MadePaths = LivePaths
          /\ step.op = "play" => request.path \in MadePaths)
    /\ [][HandlesGrow]_vars

C16_Witness ==
    /\ step.op = "play" /\ request.loop
    /\ ~Handle(request.path).loop
    /\ Len(repo.made) = 1
    /\ MadePaths = {request.path}


\* ---------------------------------------------------------------------
\* The output gain of the player's session, under Spec
\* ---------------------------------------------------------------------

\* C15 as stated: while the player's session plays, its output gain lies in
\* [0, 1] and equals the gain of the current slider value times the master
\* gain when no fade runs, and that product scaled by the elapsed fraction
\* of the fade while a fade-in runs, also when the slider was moved during
\* the fade.
C15_GainFollowsSlider ==
    (Handle(player.sound.path).exists /\ Handle(player.sound.path).playing)
        => /\ Handle(player.sound.path).output >= 0
           /\ Handle(player.sound.path).output <= FullOutput
           /\ ~player.fade_timer =>
                 Handle(player.sound.path).output =
                     SliderGain(player.slider) * repo.master
           /\ (player.fade_timer /\ ~player.fade_callback.set) =>
                 Handle(player.sound.path).output =
                     Interpolate(0, SliderGain(player.slider),
                                 player.fade_elapsed) * repo.master


\* ---------------------------------------------------------------------
\* Properties of Sound, under SpecSound
\* ---------------------------------------------------------------------

\* C17: two Sound values are equal exactly when the string forms of their
\* source references are equal, whatever their loop flags; equal values
\* have equal hashes, and a dict keyed by one finds the other.
C17_EqualityBySource ==
    domain.op = "compare" =>
        /\ domain.eq <=> (Str(domain.a.path) = Str(domain.b.path))
        /\ domain.eq => domain.hash_a = domain.hash_b
        /\ domain.found <=> domain.eq

C17_Witness ==
    /\ domain.op = "compare"
    /\ domain.a.loop # domain.b.loop
    /\ domain.a.path # domain.b.path
    /\ domain.eq /\ domain.found
    /\ domain.hash_a = domain.hash_b


\* ---------------------------------------------------------------------
\* Properties of the sound folder and the listings, under SpecFolder

\* the spellings, among the suffixes of Entries, of the six audio
\* extensions when case is ignored
AudioSpellings == {".mp3", ".MP3", ".wav", ".ogg", ".m4a", ".Flac", ".aac"}

\* the regular files directly in the directory that carry an audio extension
AudioFilesIn(fs) ==
    {e \in fs.entries : e.kind = "file" /\ e.suffix \in AudioSpellings}

\* C18: after SoundFolder.scan on an existing directory the sound list
\* holds exactly one entry for each regular file of the directory whose
\* extension is, case ignored, one of .mp3 .wav .ogg .m4a .flac .aac, and
\* none for any other file or for a subdirectory, whatever the list held
\* before the scan.
C18_ScanListsAudioFiles ==
    (domain.op = "scan" /\ domain.fs.kind = "dir")
        => /\ Range(domain.sounds) = AudioFilesIn(domain.fs)
           /\ Len(domain.sounds) = Cardinality(AudioFilesIn(domain.fs))

\* a re-scan of a directory that lost a file scanned before, holds a file
\* with an upper-case extension and an entry that is no audio file
C18_Witness ==
    /\ domain.op = "scan"
    /\ domain.fs.kind = "dir"
    /\ \E e \in Range(domain.before) : e \notin domain.fs.entries
    /\ \E e \in Range(domain.sounds) : e.suffix = ".MP3"
    /\ \E e \in domain.fs.entries : e \notin Range(domain.sounds)

\* C19: SoundFolder.random_sound returns a member of the scanned sound
\* list when the list is not empty and None when it is empty, and leaves
\* the list as it was.
C19_RandomSoundIsMember ==
    domain.op = "random_sound"
        => /\ domain.sounds = domain.before
           /\ domain.before # <<>> => domain.picked \in Range(domain.before)
           /\ domain.before = <<>> => domain.picked = NoEntry

\* a draw from a list of two sounds that returned the second one
C19_Witness ==
    /\ domain.op = "random_sound"
    /\ Len(domain.before) = 2
    /\ domain.picked = domain.before[2]

\* C20: on a path that does not exist or is no directory, a scan leaves an
\* empty sound list and the repository listings return empty lists, and
\* none of them raises.
C20_AbsentIsEmpty ==
    (/\ domain.op \in {"scan", "list_audio_files", "list_audio_folders"}
     /\ domain.fs.kind # "dir")
        => /\ domain.listing.raised = ""
           /\ domain.listing.items = <<>>
           /\ domain.op = "scan" => domain.sounds = <<>>


\* ---------------------------------------------------------------------
\* Properties of the section, under SpecSection

\* the urls of the rows of the csv that have one
RowsWithUrl == SelectSeq(domain.csv.rows, LAMBDA u : u # "")

\* the stream players of the section, in order
StreamPlayers == SelectSeq(domain.loaded.players, LAMBDA pl : pl.is_stream)

\* C11: a section loading its stream links is not aborted, every row with
\* a non-empty url yields exactly one stream player bound to that url,
\* and a link whose resolution failed has the url as its title.
C11_LinksListed ==
    (domain.op = "load" /\ domain.fs.kind = "dir" /\ domain.csv.exists)
        => /\ domain.loaded.raised = ""
           /\ Len(StreamPlayers) = Len(RowsWithUrl)
           /\ \A i \in 1..Len(StreamPlayers) :
                 /\ StreamPlayers[i].file_path = LinkPath(RowsWithUrl[i])
                 /\ RowsWithUrl[i] \in domain.fails
                        => StreamPlayers[i].filename = RowsWithUrl[i]

\* the try/except of the listing alone: each row with a url gives one
\* (url, title) pair, titled with the url when its resolution raised
C11_TitleFallsBack ==
    (domain.op = "load" /\ domain.fs.kind = "dir" /\ domain.csv.exists
         /\ RowsWithUrl # <<>>)
        => /\ Len(domain.loaded.links) = Len(RowsWithUrl)
           /\ \A i \in 1..Len(RowsWithUrl) :
                 /\ domain.loaded.links[i].url = RowsWithUrl[i]
                 /\ RowsWithUrl[i] \in domain.fails
                        => domain.loaded.links[i].title = RowsWithUrl[i]


\* ---------------------------------------------------------------------
\* Further properties of the player, under Spec

\* C23: a fade that runs to completion stops its timer at the tick on
\* which elapsed reaches 3000 ms and fires its completion callback exactly
\* once at that tick; an earlier tick fires nothing and keeps the timer, and
\* no tick comes after the completing one.
C23_FadeCompletesOnce ==
    step.op = "tick"
        => LET b == step.before
               done == b.fade_elapsed + TickMs = FadeMs
           IN  /\ b.fade_timer
               /\ b.fade_elapsed < FadeMs
               /\ Count(step.calls, "set_volume") = 1
               /\ done => /\ ~player.fade_timer
                          /\ player.fade_callback = NoCallback
                          /\ Count(step.calls, "pause")
                                 = (IF b.fade_callback.set THEN 1 ELSE 0)
                          /\ Count(step.calls, "set_position")
                                 = (IF b.fade_callback.set THEN 1 ELSE 0)
               /\ ~done => /\ player.fade_timer
                           /\ player.fade_elapsed = b.fade_elapsed + TickMs
                           /\ player.fade_callback = b.fade_callback
                           /\ ~Called(step.calls, "pause")
                           /\ ~Called(step.calls, "set_position")

\* the thirtieth tick of a fade-out: its callback pauses the session once
C23_Witness ==
    /\ step.op = "tick"
    /\ step.before.fade_elapsed + TickMs = FadeMs
    /\ step.before.fade_callback.set
    /\ Count(step.calls, "pause") = 1
    /\ ~player.fade_timer


\* the last request or event ended whatever fade was running: a stop, a
\* play that started playback, or the finished event of the bound sound
FadeCancelled ==
    \/ request.op = "stop"
    \/ request.op = "play" /\ request.started
    \/ request.op = "finished"

\* C24: a player has at most one running fade timer; a fade that a stop, a
\* started play or a finished event cancels leaves no callback behind and
\* no later tick fires one; a fade-out that a new pause replaces fires
\* nothing either, the only pause issued being that of the newest request,
\* thirty ticks after it.
C24_CancelledFadeIsSilent ==
    /\ player.timers = (IF player.fade_timer THEN 1 ELSE 0)
    /\ FadeCancelled => /\ ~player.fade_callback.set
                        /\ ~Called(step.calls, "pause")
                        /\ ~Called(step.calls, "set_position")
    /\ (step.op = "pause" /\ step.before.fade_timer) =>
          /\ player.fade_elapsed = 0
          /\ player.fade_callback =
                 Callback(player.sound, request.position)
    /\ (request.op = "pause" /\ request.ticks < FadeTicks) =>
          ~Called(step.calls, "pause")
    /\ Called(step.calls, "pause") =>
          /\ step.before.fade_callback.set
          /\ step.before.fade_elapsed + TickMs = FadeMs

\* a fade-out cancelled by a stop ten ticks after its pause request
C24_Witness ==
    /\ step.op = "stop"
    /\ step.before.fade_callback.set
    /\ step.before.fade_elapsed = 1000
    /\ ~player.fade_timer

\* a fade-out replaced by a second pause, when the new fade has completed
C24_WitnessReplaced ==
    /\ request.op = "pause" /\ request.ticks = FadeTicks
    /\ player.fade_depth = 0 /\ step.before.fade_depth > 0
    /\ Called(step.calls, "pause")


\* the fade bookkeeping of a widget
FadeOf(p) ==
    <<p.fade_timer, p.fade_start, p.fade_end, p.fade_elapsed,
      p.fade_callback>>

\* C27: once a stop request, or a play request that starts playback,
\* follows a pause request whose fade-out is still running, no later tick
\* issues the backend pause or the position restore of that pause: the
\* stopped session stays stopped at position 0 and the re-played session
\* plays on.  A play request whose resolution fails starts nothing and
\* leaves the running fade-out as it is.
C27_StoppedOrRestartedDropsPause ==
    /\ (request.op = "stop" \/ (request.op = "play" /\ request.started)) =>
          /\ ~Called(step.calls, "pause")
          /\ ~Called(step.calls, "set_position")
    /\ (request.op = "stop" /\ Handle(player.sound.path).exists) =>
          /\ ~Handle(player.sound.path).playing
          /\ Handle(player.sound.path).position = 0
    /\ (request.op = "play" /\ request.started) =>
          Handle(player.sound.path).playing
    /\ (step.op = "play" /\ ~request.started) =>
          /\ FadeOf(player) = FadeOf(step.before)
          /\ player.sound = step.before.sound

\* a play that started playback while a fade-out with its pause was pending
C27_Witness ==
    /\ step.op = "play" /\ request.started
    /\ step.before.fade_callback.set
    /\ step.before.fade_elapsed > 0
    /\ Handle(player.sound.path).playing

\* C27 as stated, for every play request: after a stop or a play request
\* no tick issues a backend pause or a position restore.
C27_Original ==
    request.op \in {"stop", "play"} =>
        /\ ~Called(step.calls, "pause")
        /\ ~Called(step.calls, "set_position")


\* ---------------------------------------------------------------------
\* Further properties of the repository, under SpecBackend

\* the session and the stored gain of the sound the last call named
Session == repo.handles[request.path]

\* C25: a backend pause or stop changes neither the stored gain of any
\* sound nor the master gain nor the output gain of any session, and a
\* play of a sound that has a session leaves its stored gain and its
\* output gain as they were: without a volume call in between, the session
\* plays again as loud as before.
C25_PauseStopKeepGains ==
    [][/\ request'.op \in {"pause", "stop"} =>
             /\ repo'.volumes = repo.volumes
             /\ repo'.master = repo.master
             /\ \A path \in Paths :
                   repo'.handles[path].output = repo.handles[path].output
       /\ (request'.op = "play" /\ repo.handles[request'.path].exists) =>
             /\ repo'.volumes = repo.volumes
             /\ repo'.master = repo.master
             /\ repo'.handles[request'.path].output
                    = repo.handles[request'.path].output]_vars

\* a session at a gain and a master gain that are not the initial ones is
\* played again after it was paused or stopped
C25_Witness ==
    /\ request.op = "play" /\ ~request.playing
    /\ Session.playing
    /\ repo.volumes[request.path] = SliderGain(SliderInit)
    /\ repo.master = MasterMax \div 2
    /\ Session.output = SliderGain(SliderInit) * (MasterMax \div 2)


\* C26: the loop-or-finish decision at the end of the media follows the
\* loop flag of the most recent play of that source: when a play is the last
\* call before the media of its source ends, the session restarts if that
\* play asked for a loop and stays ended if it did not.
C26_LoopFollowsLastPlay ==
    [][(/\ request.op = "play"
        /\ request'.op = "end_of_media"
        /\ request'.path = request.path)
           => (repo'.handles[request.path].playing <=> request.loop)]_vars


\* ---------------------------------------------------------------------
\* The gain a session starts with, under Spec

\* the bound sound's play among the calls of the last handler
PlayCalls ==
    {i \in 1..Len(step.calls) : step.calls[i].op = "play"}

\* C29: a gain set for a sound that has no session creates no session and
\* is kept, and the play that creates the session starts it with that gain
\* instead of the default 1.0; for a loop-mode player that gain is always 0
\* when its backend play is issued.
C29_FirstPlayKeepsGain ==
    /\ []((step.op = "play" /\ player.loop_mode) =>
             \A i \in PlayCalls : step.calls[i].arg = 0)
    /\ [][/\ ~Called(step'.calls, "play") =>
                /\ repo'.made = repo.made
                /\ \A path \in Paths :
                      repo'.handles[path].exists = repo.handles[path].exists
          /\ (step'.op = "slider" /\ HasSound(World)) =>
                repo'.volumes[player.sound.path] = SliderGain(player'.slider)
          /\ (/\ step'.op = "play"
              /\ Called(step'.calls, "play")
              /\ ~repo.handles[player'.sound.path].exists) =>
                /\ repo'.handles[player'.sound.path].exists
                /\ \A i \in 1..Len(step'.calls) :
                      step'.calls[i].op = "play" =>
                          step'.calls[i].arg =
                              (IF player'.loop_mode THEN 0
                               ELSE IF repo.volumes[player'.sound.path]
                                           = NoVolume
                               THEN GainOne
                               ELSE repo.volumes[player'.sound.path])]_vars

\* the first play of a player whose slider was moved to 0 beforehand: the
\* session starts with the gain 0 that was kept for it
C29_Witness ==
    /\ step.op = "play" /\ ~player.loop_mode /\ ~player.is_stream
    /\ Len(repo.made) = 1
    /\ Handle(player.sound.path).position = 0
    /\ PlayCalls # {}
    /\ \A i \in PlayCalls : step.calls[i].arg = SliderGain(0)
    /\ player.slider = 0

\* ---------------------------------------------------------------------
\* Properties of the players of a section, under SpecBoard

\* the handler that made the last step ran on the player at place i
BoardDid(op, i) == step'.op = op /\ domain'.who = i

\* C21: a play request on a folder player whose folder has sounds binds the
\* player to a member of the folder, drawn for this request and carrying
\* the player's loop flag, and every backend call of the request, the play
\* call among them, is made for that sound; on a folder without sounds the
\* request makes no backend call and leaves the player (its sound, its
\* fade, its buttons) and the backend as they were.
C21_FolderPlayResamples ==
    [][\A i \in Places :
           BoardDid("play", i) /\ domain.players[i].is_folder =>
               LET p == domain.players[i]
                   q == domain'.players[i]
                   picked == domain'.picked
               IN  IF p.folder # <<>>
                   THEN /\ picked \in Range(p.folder)
                        /\ q.sound = Sound(picked, p.loop_mode)
                        /\ Called(step'.calls, "play")
                        /\ \A k \in DOMAIN step'.calls :
                               step'.calls[k].path = picked
                        /\ repo'.handles[picked].playing
                   ELSE /\ step'.calls = <<>>
                        /\ q = p
                        /\ repo' = repo]_vars

\* a folder player that played "a" has been asked to play again and drew "b"
C21_Witness ==
    /\ step.op = "play"
    /\ domain.who = 1
    /\ domain.players[1].is_folder
    /\ domain.picked = "b"
    /\ domain.players[1].sound = Sound("b", domain.players[1].loop_mode)
    /\ repo.handles["a"].exists
    /\ Called(step.calls, "play")

\* a play request has been made on a folder player whose folder is empty
C21_WitnessEmpty ==
    /\ step.op = "play"
    /\ domain.who = 1
    /\ domain.players[1].is_folder
    /\ domain.players[1].folder = <<>>
    /\ step.calls = <<>>
    /\ domain.players[1].play_visible

\* C22: when the repository emits finished for a source, every player of the
\* section bound to that source ends with no fade (its timer stopped, its
\* callback dropped and not run: the step pauses and seeks nothing) and
\* with the play button in place of the pause button, and every other
\* player is as it was.
C22_FinishedResetsItsPlayers ==
    [][\A k \in DOMAIN step'.calls :
           step'.op = "end_of_media" /\ step'.calls[k].op = "finished" =>
               LET x == Sound(step'.calls[k].path, FALSE)
               IN  /\ ~Called(step'.calls, "pause")
                   /\ ~Called(step'.calls, "set_position")
                   /\ \A i \in Places :
                          LET p == domain.players[i]
                              q == domain'.players[i]
                          IN  IF SoundEq(p.sound, x)
                              THEN /\ ~q.fade_timer
                                   /\ q.timers = p.timers
                                          - (IF p.fade_timer THEN 1 ELSE 0)
                                   /\ q.fade_callback = NoCallback
                                   /\ q.play_visible
                                   /\ ~q.pause_visible
                                   /\ q.sound = p.sound
                              ELSE q = p]_vars

\* finished has been emitted for the sound of the first player while both
\* players were fading out to a pause: the first has lost its fade and shows
\* play, the second is still fading and shows pause
C22_Witness ==
    /\ step.op = "end_of_media"
    /\ Called(step.calls, "finished")
    /\ domain.fading = {1, 2}
    /\ domain.players[1].sound.path = domain.path
    /\ ~domain.players[1].fade_timer
    /\ domain.players[1].play_visible
    /\ domain.players[2].sound.path # domain.path
    /\ domain.players[2].fade_timer
    /\ domain.players[2].fade_callback.set
    /\ domain.players[2].pause_visible

\* finished has been emitted for a source two players are bound to
C22_WitnessShared ==
    /\ step.op = "end_of_media"
    /\ Called(step.calls, "finished")
    /\ domain.players[1].sound.path = domain.path
    /\ domain.players[2].sound.path = domain.path
    /\ domain.fading # {}
    /\ Fading = {}

\* C28 (as stated): after stop-all no session of the repository is playing,
\* no player has a fade running and every player shows its play button.
C28_StopAllSilences ==
    step.op = "stop_all" =>
        /\ \A path \in Paths : ~repo.handles[path].playing
        /\ \A i \in Places : /\ ~domain.players[i].fade_timer
                             /\ domain.players[i].play_visible
                             /\ ~domain.players[i].pause_visible

\* what stop-all does reach: the fades and buttons of every player, and the
\* session of the sound each player is bound to at that moment
C28_StopAllStopsBound ==
    step.op = "stop_all" =>
        \A i \in Places :
            LET p == domain.players[i]
            IN  /\ ~p.fade_timer
                /\ p.play_visible
                /\ ~p.pause_visible
                /\ p.sound # NoSound => ~repo.handles[p.sound.path].playing

============================================================================
